---- MODULE Spec2Model ----
(***************************************************************************)
(* Merit-order pipeline of TradingAnalytics/tradingExample.py.             *)
(*                                                                         *)
(* The script is one sequential run: the hourly price table is left-joined *)
(* onto the production records, every unit is reduced to one result row    *)
(* (or skipped), and the rows are sorted by marginal price and cumulated.  *)
(*                                                                         *)
(* Data frames are modelled as sequences of records (ordered rows); the    *)
(* concatenated production frame is a set of records because the per-unit  *)
(* filter is followed by a sort on datetime and every unit has at most one *)
(* record per timestamp.  Generation is a non-negative whole number of MW  *)
(* (nulls already filled with 0), prices are integers, a mean is the exact *)
(* rational [num, den] in lowest terms (den > 0), and a polars null is     *)
(* NULL, the one value of that shape with den = 0.                         *)
(***************************************************************************)
EXTENDS Integers, Sequences, FiniteSets, TLC

\* ---- bounds of the model ------------------------------------------------
MaxLen == 4
MaxShort == 2
MaxGenRaw == 120

\* ---- input value sets ---------------------------------------------------
Units == {"A", "B"}
GenVals == {0, 30, 100}
PriceVals == {-10, 10}

\* ---- program constants --------------------------------------------------
RoundStep == 50
NULL == [num |-> 0, den |-> 0]
NoUnit == "none"

VARIABLES prices_df, plant_production_df, pending, unit_name, unit_df,
          results, marginal_results_df, pc

vars == <<prices_df, plant_production_df, pending, unit_name, unit_df,
          results, marginal_results_df, pc>>

\* ---- rational arithmetic for column means -------------------------------
Abs(n) == IF n < 0 THEN -n ELSE n

RECURSIVE GCD(_, _)
GCD(a, b) == IF b = 0 THEN a ELSE GCD(b, a % b)

Frac(n, d) == LET g == GCD(Abs(n), d) IN [num |-> n \div g, den |-> d \div g]

FracLeq(a, b) == a.num * b.den <= b.num * a.den

FracAdd(a, b) == Frac(a.num * b.den + b.num * a.den, a.den * b.den)

\* ---- column helpers -----------------------------------------------------
RECURSIVE FracSum(_)
FracSum(s) == IF s = <<>> THEN Frac(0, 1) ELSE FracAdd(s[1], FracSum(Tail(s)))

NotNull(v) == v # NULL

\* mutant of MeanCount: null prices are counted in the denominator
MeanCountWithNulls(col) == Len(col)

\* polars Expr.mean(): nulls are skipped, an all-null column gives null
MeanCount(col) == Len(SelectSeq(col, NotNull))

Mean(col) ==
    LET vals == SelectSeq(col, NotNull)
    IN IF MeanCount(col) = 0 THEN NULL
       ELSE Frac(FracSum(vals).num, FracSum(vals).den * MeanCount(col))

\* polars Series.min() over avg_price: nulls are skipped, all-null gives null
MinAvg(col) ==
    LET vals == {col[i] : i \in DOMAIN col} \ {NULL}
    IN IF vals = {} THEN NULL
       ELSE CHOOSE m \in vals : \A v \in vals : FracLeq(m, v)

GenCol(df) == [i \in DOMAIN df |-> df[i].generation]

ColMax(df) == CHOOSE m \in {df[i].generation : i \in DOMAIN df} :
                  \A i \in DOMAIN df : df[i].generation <= m

ColMin(df) == CHOOSE m \in {df[i].generation : i \in DOMAIN df} :
                  \A i \in DOMAIN df : m <= df[i].generation

\* cum_sum() of an integer column (booleans count as 0/1)
RECURSIVE CumSum(_)
CumSum(col) ==
    IF col = <<>> THEN <<>>
    ELSE LET n == Len(col)
             before == CumSum(SubSeq(col, 1, n - 1))
         IN Append(before, (IF n = 1 THEN 0 ELSE before[n - 1]) + col[n])

\* ---- lines 49-54: left join of the price table ---------------------------
PriceAt(prices, t) ==
    IF \E p \in prices : p.datetime = t
    THEN (CHOOSE p \in prices : p.datetime = t).day_ahead_price
    ELSE NULL

LeftJoin(prod, prices) ==
    {[datetime |-> r.datetime, unit |-> r.unit, generation |-> r.generation,
      day_ahead_price |-> PriceAt(prices, r.datetime)] : r \in prod}

UniqueUnits(df) == {r.unit : r \in df}

\* ---- line 61: filter to the unit, sort by datetime -----------------------
RECURSIVE SortByDatetime(_)
SortByDatetime(S) ==
    IF S = {} THEN <<>>
    ELSE LET r == CHOOSE x \in S : \A y \in S : x.datetime <= y.datetime
         IN <<r>> \o SortByDatetime(S \ {r})

FilterUnit(df, u) == SortByDatetime({r \in df : r.unit = u})

\* ---- lines 63-66: round generation up to the next 50 MW ------------------
\* mutant of RoundUp: round to the nearest multiple instead of upwards
RoundNearest(g) == ((g + 25) \div 50) * 50

CeilDiv(g, d) == -((-g) \div d)

RoundUp(g) == CeilDiv(g, RoundStep) * RoundStep

RoundGeneration(df) ==
    [i \in DOMAIN df |-> [df[i] EXCEPT !.generation = RoundUp(@)]]

UnitFrame(u) == RoundGeneration(FilterUnit(plant_production_df, u))

\* ---- lines 68-73: branch conditions --------------------------------------
\* mutant of AllZero: the skip test compares with < instead of ==
AllZeroNever(df) == ColMax(df) < 0

\* mutant of AllNonZero: the baseload test compares with the rounding step
AllNonZeroAboveStep(df) == ColMin(df) > 50

\* mutant of BaseloadRow: the baseload price is the mean price, not 0
BaseloadRowMeanPrice(u, df) ==
    [unit |-> u, generation |-> ColMax(df),
     marginal_price |-> Mean([i \in DOMAIN df |-> df[i].day_ahead_price])]

AllZero(df) == ColMax(df) = 0

AllNonZero(df) == ColMin(df) > 0

BaseloadRow(u, df) ==
    [unit |-> u, generation |-> ColMax(df), marginal_price |-> Frac(0, 1)]

\* ---- lines 83-98: is_zero, group_id, group_avg, join back ----------------
IsZeroCol(df) == [i \in DOMAIN df |-> df[i].generation = 0]

\* mutant of GroupIdCol: the running count is taken over the non-zero rows
GroupIdColNonZero(df) ==
    CumSum([i \in DOMAIN df |-> IF IsZeroCol(df)[i] THEN 0 ELSE 1])

GroupIdCol(df) ==
    CumSum([i \in DOMAIN df |-> IF IsZeroCol(df)[i] THEN 1 ELSE 0])

GroupAvg(df, gid, g) ==
    LET rows == SelectSeq([i \in DOMAIN df |-> <<gid[i], df[i].day_ahead_price>>],
                          LAMBDA p : p[1] = g)
    IN Mean([i \in DOMAIN rows |-> rows[i][2]])

WithGroups(df) ==
    LET gid == GroupIdCol(df)
    IN [i \in DOMAIN df |->
          [datetime |-> df[i].datetime, unit |-> df[i].unit,
           generation |-> df[i].generation,
           day_ahead_price |-> df[i].day_ahead_price,
           is_zero |-> IsZeroCol(df)[i],
           group_id |-> gid[i],
           avg_price |-> GroupAvg(df, gid, gid[i])]]

\* ---- lines 100-106: keep the rows at maximum generation, emit the row ----
AtMax(df, r) == r.generation = ColMax(df)

FilterMax(df) == SelectSeq(df, LAMBDA r : AtMax(df, r))

IntermittentRow(u, df) ==
    [unit |-> u, generation |-> ColMax(df),
     marginal_price |-> MinAvg([i \in DOMAIN df |-> df[i].avg_price])]

\* ---- lines 111-114: sort by marginal_price, cumulate generation ----------
\* sort() puts nulls first and does not promise the order of equal keys
KeyLeq(a, b) == a = NULL \/ (b # NULL /\ FracLeq(a, b))

Orderings(n) == {f \in [1..n -> 1..n] : \A i, j \in 1..n : f[i] = f[j] => i = j}

\* mutant of IsSorted: the sort is descending
IsSortedDescending(rows) ==
    \A i \in 1..(Len(rows) - 1) : KeyLeq(rows[i + 1].marginal_price, rows[i].marginal_price)

IsSorted(rows) ==
    \A i \in 1..(Len(rows) - 1) : KeyLeq(rows[i].marginal_price, rows[i + 1].marginal_price)

SortByMarginalPrice(rows) ==
    {s \in {[i \in 1..Len(rows) |-> rows[f[i]]] : f \in Orderings(Len(rows))} :
        IsSorted(s)}

\* mutant of CumulatedGeneration: the column is copied, not cumulated
CumulatedGenerationCopy(rows) == GenCol(rows)

CumulatedGeneration(rows) == CumSum(GenCol(rows))

WithCumulated(rows) ==
    [i \in DOMAIN rows |->
        [unit |-> rows[i].unit, generation |-> rows[i].generation,
         marginal_price |-> rows[i].marginal_price,
         cumulated_generation |-> CumulatedGeneration(rows)[i]]]

\* ---- initial states: the frames after loading (lines 10-47) --------------
\* A unit has one record per hour 1..n; the hourly price table has at most
\* one row per hour and may lack any of them.
SeriesSet(n) == UNION {[1..k -> GenVals] : k \in 1..n}

PriceTables(n) ==
    {{[datetime |-> h, day_ahead_price |-> f[h]] : h \in {x \in 1..n : f[x] # NULL}} :
        f \in [1..n -> {Frac(p, 1) : p \in PriceVals} \cup {NULL}]}

ProductionOf(series) ==
    UNION {{[datetime |-> h, unit |-> u, generation |-> series[u][h]] :
               h \in DOMAIN series[u]} : u \in DOMAIN series}

Start ==
    /\ pending = {}
    /\ unit_name = NoUnit
    /\ unit_df = <<>>
    /\ results = <<>>
    /\ marginal_results_df = <<>>
    /\ pc = "join"

\* one unit with up to MaxLen records
InitOneUnit ==
    /\ prices_df \in PriceTables(MaxLen)
    /\ \E series \in [{"A"} -> SeriesSet(MaxLen)] :
          plant_production_df = ProductionOf(series)
    /\ Start

\* every unit of Units with up to MaxShort records
InitUnits ==
    /\ prices_df \in PriceTables(MaxShort)
    /\ \E series \in [Units -> SeriesSet(MaxShort)] :
          plant_production_df = ProductionOf(series)
    /\ Start

Init == InitOneUnit \/ InitUnits

\* one unit with a single record, over the whole range of raw generation
InitRound ==
    /\ prices_df \in {{}, {[datetime |-> 1, day_ahead_price |-> Frac(10, 1)]}}
    /\ \E g \in 0..MaxGenRaw :
          plant_production_df = {[datetime |-> 1, unit |-> "A", generation |-> g]}
    /\ Start

\* ---- actions -------------------------------------------------------------
Join ==
    /\ pc = "join"
    /\ plant_production_df' = LeftJoin(plant_production_df, prices_df)
    /\ pending' = UniqueUnits(plant_production_df')
    /\ pc' = "loop"
    /\ UNCHANGED <<prices_df, unit_name, unit_df, results, marginal_results_df>>

SkipUnit ==
    /\ pc = "loop"
    /\ \E u \in pending :
          /\ AllZero(UnitFrame(u))
          /\ unit_name' = u
          /\ unit_df' = UnitFrame(u)
          /\ pending' = pending \ {u}
    /\ UNCHANGED <<prices_df, plant_production_df, results, marginal_results_df, pc>>

Baseload ==
    /\ pc = "loop"
    /\ \E u \in pending :
          /\ ~AllZero(UnitFrame(u))
          /\ AllNonZero(UnitFrame(u))
          /\ unit_name' = u
          /\ unit_df' = UnitFrame(u)
          /\ results' = Append(results, BaseloadRow(u, UnitFrame(u)))
          /\ pending' = pending \ {u}
    /\ UNCHANGED <<prices_df, plant_production_df, marginal_results_df, pc>>

Group ==
    /\ pc = "loop"
    /\ \E u \in pending :
          /\ ~AllZero(UnitFrame(u))
          /\ ~AllNonZero(UnitFrame(u))
          /\ unit_name' = u
          /\ unit_df' = WithGroups(UnitFrame(u))
          /\ pending' = pending \ {u}
    /\ pc' = "filter"
    /\ UNCHANGED <<prices_df, plant_production_df, results, marginal_results_df>>

FilterAppend ==
    /\ pc = "filter"
    /\ unit_df' = FilterMax(unit_df)
    /\ results' = Append(results, IntermittentRow(unit_name, unit_df'))
    /\ pc' = "loop"
    /\ UNCHANGED <<prices_df, plant_production_df, pending, unit_name, marginal_results_df>>

Render ==
    /\ pc = "loop"
    /\ pending = {}
    /\ results # <<>>
    /\ \E s \in SortByMarginalPrice(results) : marginal_results_df' = WithCumulated(s)
    /\ pc' = "done"
    /\ UNCHANGED <<prices_df, plant_production_df, pending, unit_name, unit_df, results>>

\* no unit produced a row: the frame has no marginal_price column to sort by
RenderFail ==
    /\ pc = "loop"
    /\ pending = {}
    /\ results = <<>>
    /\ pc' = "failed"
    /\ UNCHANGED <<prices_df, plant_production_df, pending, unit_name, unit_df,
                   results, marginal_results_df>>

Next == Join \/ SkipUnit \/ Baseload \/ Group \/ FilterAppend \/ Render \/ RenderFail

NextRound == Join \/ SkipUnit \/ Baseload \/ Render \/ RenderFail

Spec == Init /\ [][Next]_vars

SpecRound == InitRound /\ [][NextRound]_vars

\* ======================================================================
\* Properties
\* ======================================================================
\* ---- vocabulary of the properties ----------------------------------------
\* smallest multiple of 50 that is not below g
Ceil50(g) == CHOOSE m \in 0..(g + 50) : m % 50 = 0 /\ m >= g /\ m < g + 50

LoadedUnits == {r.unit : r \in plant_production_df}

RawOf(u) == {r \in plant_production_df : r.unit = u}

ZeroEverywhere(u) == \A r \in RawOf(u) : Ceil50(r.generation) = 0

NonZeroEverywhere(u) == \A r \in RawOf(u) : Ceil50(r.generation) # 0

EverZeroEverNonZero(u) == ~ZeroEverywhere(u) /\ ~NonZeroEverywhere(u)

MaxRounded(u) ==
    CHOOSE m \in {Ceil50(r.generation) : r \in RawOf(u)} :
        \A r \in RawOf(u) : Ceil50(r.generation) <= m

\* the loop iteration of unit u has run to its end
Processed(u) ==
    /\ pc # "join"
    /\ u \in LoadedUnits \ pending
    /\ ~(pc = "filter" /\ u = unit_name)

ResultRows(u) == {i \in DOMAIN results : results[i].unit = u}

Zero == [num |-> 0, den |-> 1]

RECURSIVE SumOver(_, _)
SumOver(S, f) ==
    IF S = {} THEN 0 ELSE LET x == CHOOSE y \in S : TRUE IN f[x] + SumOver(S \ {x}, f)

\* ---- C3 ------------------------------------------------------------------
\* C3: a unit whose rounded generation is non-zero in every record has,
\* once its iteration has run, exactly one result row, with marginal_price 0
\* and generation equal to its maximum rounded generation, whatever the
\* joined prices are; the row is kept in the sorted frame.
C3_BaseloadPriceZero ==
    \A u \in LoadedUnits :
        (Processed(u) /\ NonZeroEverywhere(u)) =>
            /\ Cardinality(ResultRows(u)) = 1
            /\ \A i \in ResultRows(u) :
                  /\ results[i].marginal_price = Zero
                  /\ results[i].generation = MaxRounded(u)
            /\ pc = "done" =>
                  \E i \in DOMAIN marginal_results_df :
                      /\ marginal_results_df[i].unit = u
                      /\ marginal_results_df[i].marginal_price = Zero
                      /\ marginal_results_df[i].generation = MaxRounded(u)

C3_Witness ==
    /\ pc = "done"
    /\ \E u \in LoadedUnits :
          /\ NonZeroEverywhere(u)
          /\ \E r1, r2 \in RawOf(u) :
                /\ Ceil50(r1.generation) < Ceil50(r2.generation)
                /\ r1.day_ahead_price \notin {NULL, Zero}
          /\ \E i \in DOMAIN marginal_results_df : marginal_results_df[i].unit = u

\* ---- C4 ------------------------------------------------------------------
\* C4: a unit whose rounded generation is zero in every record has no row
\* in the result, neither in the collected rows nor in the sorted frame.
C4_AllZeroAbsent ==
    \A u \in LoadedUnits :
        ZeroEverywhere(u) =>
            /\ ResultRows(u) = {}
            /\ \A i \in DOMAIN marginal_results_df : marginal_results_df[i].unit # u

C4_Witness ==
    /\ pc = "done"
    /\ \E u \in LoadedUnits :
          /\ ZeroEverywhere(u)
          /\ Cardinality(RawOf(u)) >= 2
          /\ Processed(u)
    /\ Len(marginal_results_df) = 1

\* ---- C5 ------------------------------------------------------------------
\* C5: the rows of the sorted frame are in ascending order of marginal_price
\* (compared where both prices are numbers).
C5_SortedAscending ==
    pc = "done" =>
        \A i, j \in DOMAIN marginal_results_df :
            (/\ i < j
             /\ marginal_results_df[i].marginal_price # NULL
             /\ marginal_results_df[j].marginal_price # NULL) =>
                marginal_results_df[i].marginal_price.num
                        * marginal_results_df[j].marginal_price.den
                    <= marginal_results_df[j].marginal_price.num
                        * marginal_results_df[i].marginal_price.den

\* a baseload row (price 0) was collected first and an intermittent row with
\* a negative average second; the sort has put the negative one first
C5_Witness ==
    /\ pc = "done"
    /\ Len(results) = 2
    /\ results[1].marginal_price = Zero
    /\ marginal_results_df[1].unit = results[2].unit
    /\ marginal_results_df[1].marginal_price # NULL
    /\ marginal_results_df[1].marginal_price.num < 0
    /\ marginal_results_df[2].marginal_price = Zero

\* ---- C6 ------------------------------------------------------------------
\* C6: in the sorted frame cumulated_generation of a row is the sum of
\* generation over that row and the rows before it; it never decreases down
\* the rows and its last value is the sum of generation over all result rows.
C6_RunningSum ==
    pc = "done" =>
        LET df == marginal_results_df
            gen == [i \in DOMAIN df |-> df[i].generation]
        IN /\ \A i \in DOMAIN df : df[i].cumulated_generation = SumOver(1..i, gen)
           /\ \A i \in 1..(Len(df) - 1) :
                 df[i].cumulated_generation <= df[i + 1].cumulated_generation
           /\ df[Len(df)].cumulated_generation
                 = SumOver(DOMAIN results, [i \in DOMAIN results |-> results[i].generation])

C6_Witness ==
    /\ pc = "done"
    /\ Len(marginal_results_df) = 2
    /\ marginal_results_df[1].generation # marginal_results_df[2].generation
    /\ marginal_results_df[2].cumulated_generation = 150

\* ---- C7 ------------------------------------------------------------------
\* C7: each rounded generation value of the unit frame is the smallest
\* multiple of 50 that is not below the raw value of the same record: 0 stays
\* 0, 1..50 becomes 50, 51..100 becomes 100, a multiple of 50 is unchanged.
C7_CeilingTo50 ==
    \A i \in DOMAIN unit_df :
        \E r \in plant_production_df :
            /\ r.unit = unit_df[i].unit
            /\ r.datetime = unit_df[i].datetime
            /\ unit_df[i].generation % 50 = 0
            /\ unit_df[i].generation >= r.generation
            /\ unit_df[i].generation < r.generation + 50
            /\ (r.generation = 0) => unit_df[i].generation = 0
            /\ (r.generation \in 1..50) => unit_df[i].generation = 50
            /\ (r.generation \in 51..100) => unit_df[i].generation = 100
            /\ (r.generation % 50 = 0) => unit_df[i].generation = r.generation

C7_Witness ==
    /\ Len(unit_df) = 1
    /\ unit_df[1].generation = 100
    /\ \E r \in plant_production_df : r.generation = 51

\* ---- C8 ------------------------------------------------------------------
HasOneRecord(u) == Cardinality(RawOf(u)) = 1

\* C8 as stated: every unit with exactly one production record is treated as
\* baseload: it has a result row with marginal_price 0 and generation equal
\* to its single rounded generation value.
C8_SingleRecordIsBaseload ==
    \A u \in LoadedUnits :
        (Processed(u) /\ HasOneRecord(u)) =>
            \E i \in ResultRows(u) :
                /\ results[i].marginal_price = Zero
                /\ \A r \in RawOf(u) : results[i].generation = Ceil50(r.generation)

\* C8 amended: a unit with exactly one production record whose rounded
\* generation is non-zero is treated as baseload (one result row,
\* marginal_price 0, generation the single rounded value); a unit whose
\* single record rounds to zero is skipped and has no result row.
C8_SingleRecordBaseloadOrSkipped ==
    \A u \in LoadedUnits :
        (Processed(u) /\ HasOneRecord(u)) =>
            \A r \in RawOf(u) :
                IF Ceil50(r.generation) = 0
                THEN ResultRows(u) = {}
                ELSE /\ Cardinality(ResultRows(u)) = 1
                     /\ \A i \in ResultRows(u) :
                           /\ results[i].marginal_price = Zero
                           /\ results[i].generation = Ceil50(r.generation)

C8_Witness ==
    /\ pc = "done"
    /\ \E u \in LoadedUnits :
          /\ HasOneRecord(u)
          /\ \A r \in RawOf(u) :
                /\ r.generation = 30
                /\ r.day_ahead_price \notin {NULL, Zero}
          /\ \E i \in ResultRows(u) : results[i].generation = 50

\* ---- C9 ------------------------------------------------------------------
GroupMembers(df, i) == {j \in DOMAIN df : df[j].group_id = df[i].group_id}

Priced(df, S) == {j \in S : df[j].day_ahead_price # NULL}

\* C9: after the left join a production record has the price of the price
\* row at its timestamp and a null price when there is none; the average of
\* a group is the sum of its non-null prices over their number, and null when
\* the group has no price at all; an intermittent unit without any price gets
\* a null marginal_price.
C9_NullPriceIsMissing ==
    /\ pc # "join" =>
          \A r \in plant_production_df :
              IF \E p \in prices_df : p.datetime = r.datetime
              THEN \E p \in prices_df :
                      p.datetime = r.datetime /\ r.day_ahead_price = p.day_ahead_price
              ELSE r.day_ahead_price = NULL
    /\ pc = "filter" =>
          \A i \in DOMAIN unit_df :
              LET priced == Priced(unit_df, GroupMembers(unit_df, i))
                  total == SumOver(priced,
                               [j \in DOMAIN unit_df |-> unit_df[j].day_ahead_price.num])
                  avg == unit_df[i].avg_price
              IN IF priced = {}
                 THEN avg = NULL
                 ELSE /\ avg # NULL
                      /\ avg.den > 0
                      /\ avg.num * Cardinality(priced) = total * avg.den
    /\ \A u \in LoadedUnits :
          (/\ Processed(u)
           /\ EverZeroEverNonZero(u)
           /\ \A r \in RawOf(u) : r.day_ahead_price = NULL) =>
              /\ ResultRows(u) # {}
              /\ \A i \in ResultRows(u) : results[i].marginal_price = NULL

\* a group that mixes a null price with a non-zero price, next to a group
\* without any price
C9_Witness ==
    /\ pc = "filter"
    /\ \E i, j \in DOMAIN unit_df :
          /\ unit_df[i].group_id = unit_df[j].group_id
          /\ unit_df[i].day_ahead_price = NULL
          /\ unit_df[j].day_ahead_price \notin {NULL, Zero}
          /\ unit_df[i].avg_price = unit_df[j].day_ahead_price
    /\ \E i \in DOMAIN unit_df : unit_df[i].avg_price = NULL

C2_GroupsAreMaximalRuns ==
    pc = "filter" =>
        \A i \in 1..(Len(unit_df) - 1) :
            (unit_df[i].group_id = unit_df[i + 1].group_id)
                <=> ((unit_df[i].generation = 0) <=> (unit_df[i + 1].generation = 0))

\* ---- C1 ------------------------------------------------------------------
Series(u) == SortByDatetime(RawOf(u))

SameState(s, i, j) == (Ceil50(s[i].generation) = 0) <=> (Ceil50(s[j].generation) = 0)

\* the maximal run of zero or of non-zero records around record i
RunOf(s, i) ==
    {j \in DOMAIN s :
        \A k \in (IF i < j THEN i ELSE j)..(IF i < j THEN j ELSE i) : SameState(s, i, k)}

RunMean(s, i) ==
    LET priced == {j \in RunOf(s, i) : s[j].day_ahead_price # NULL}
    IN IF priced = {} THEN NULL
       ELSE Frac(SumOver(priced, [j \in DOMAIN s |-> s[j].day_ahead_price.num]),
                 Cardinality(priced))

RunMeansAtMax(u) ==
    {RunMean(Series(u), i) :
        i \in {k \in DOMAIN Series(u) : Ceil50(Series(u)[k].generation) = MaxRounded(u)}}

\* C1: for a unit whose rounded generation is zero in some record and
\* non-zero in another, marginal_price is the least mean day-ahead price over
\* the maximal zero/non-zero runs that hold a record at the unit's maximum
\* rounded generation, and generation is that maximum.
C1_MinRunAverage ==
    \A u \in LoadedUnits :
        (Processed(u) /\ EverZeroEverNonZero(u)) =>
            \E i \in ResultRows(u) :
                /\ results[i].generation = MaxRounded(u)
                /\ \/ /\ results[i].marginal_price = NULL
                      /\ RunMeansAtMax(u) = {NULL}
                   \/ /\ results[i].marginal_price \in RunMeansAtMax(u) \ {NULL}
                      /\ \A m \in RunMeansAtMax(u) \ {NULL} :
                            FracLeq(results[i].marginal_price, m)

====
